---- MODULE Spec2Model ----
(***************************************************************************)
(* A model of pydns/aresolver.py: the single-flight queue (query_future,   *)
(* query, loop, query_key), the cache resolver (query_cache), name-server  *)
(* discovery (get_nameservers) and the remote resolver (query_remote).     *)
(*                                                                         *)
(* Names are sequences of labels ("w.ex" is <<"w", "ex">>, the root name   *)
(* '' is <<>>), an IP address is a one-label sequence holding the address, *)
(* and a record's data is a tuple of such components (one component for    *)
(* A/AAAA/CNAME/NS, (mname, rname) for SOA), so that all records have one  *)
(* shape.                                                                  *)
(***************************************************************************)
EXTENDS Integers, Sequences, FiniteSets, TLC

\* ------------------------------------------------------------------ types
A == 1
NS == 2
CNAME == 5
SOA == 6
MX == 15
AAAA == 28
ANY == 255
A_TYPES == {A, AAAA}

recursion_available == 1

\* rootdomains = ['.lan'], each suffix held as its labels after the dot
rootdomains == << <<"lan">> >>

\* ----------------------------------------------------------------- bounds
\* UDP requests sent in one run
MaxSends == 2
\* query() calls made by the clients in one run
MaxCalls == 2

\* ------------------------------------------------------------ names, data
ROOT == <<>>
N_ex == <<"ex">>
N_w == <<"w", "ex">>
N_m == <<"m", "ex">>
N_ns == <<"ns", "ex">>
N_rs == <<"rs">>
N_lan == <<"h", "lan">>
N_tlan == <<"t", "lan">>

IP1 == <<"10.0.0.1">>
IP2 == <<"10.0.0.2">>
IP3 == <<"10.0.0.3">>
IpAddrs == {IP1, IP2, IP3}

Rec(name, qtype, data, ttl) ==
    [name |-> name, qtype |-> qtype, data |-> data, ttl |-> ttl]

Range(s) == {s[i] : i \in 1..Len(s)}

\* utils.ip_type(host): the address family of an IP literal, None (0) for a
\* host name
ip_type(host) == IF host \in IpAddrs THEN 4 ELSE 0

\* ------------------------------------------------------------------ cache
\* Hosts.query(name, qtype) for one qtype: ANY matches every record
CacheQuery(c, name, qtype) ==
    SelectSeq(c, LAMBDA r : r.name = name /\ (qtype = ANY \/ r.qtype = qtype))

\* Hosts.query(name, qtypes) for a tuple of qtypes
CacheQuerySet(c, name, qtypes) ==
    SelectSeq(c, LAMBDA r : r.name = name /\ r.qtype \in qtypes)

\* Hosts.add_host(name, record): the record is appended to the name's list
add_host(c, r) == Append(c, r)

\* DNSMemCache.add_item: a permanent record
add_item(c, key, qtype, data) == add_host(c, Rec(key, qtype, <<data>>, -1))

\* ---------------------------------------------------------------- message
DNSMessage == [an |-> <<>>, ns |-> <<>>, ar |-> <<>>, r |-> 0, aa |-> 0]

\* fqdn.endswith(suffix) for a suffix '.' + labels
EndsWith(fqdn, suf) ==
    /\ Len(fqdn) > Len(suf)
    /\ SubSeq(fqdn, Len(fqdn) - Len(suf) + 1, Len(fqdn)) = suf

IsRootDomain(fqdn) == \E i \in 1..Len(rootdomains) : EndsWith(fqdn, rootdomains[i])

\* --------------------------------------------------------- cache resolver
\* query_cache, lines 97-111: the loop over the direct records. An NS record
\* reads the unbound name r (line 102) and raises NameError.
RECURSIVE DirectLoop(_, _, _, _, _)
DirectLoop(data, res, n, fqdn, qtype) ==
    IF data = <<>> THEN [res |-> res, n |-> n, exc |-> FALSE]
    ELSE LET rec == Head(data) IN
         IF rec.qtype \in {NS}
         THEN [res |-> res, n |-> n, exc |-> TRUE]
         ELSE DirectLoop(Tail(data),
                         [res EXCEPT !.an = Append(@, [rec EXCEPT !.name = fqdn])],
                         IF qtype = CNAME \/ rec.qtype # CNAME THEN n + 1 ELSE n,
                         fqdn, qtype)

\* query_cache, line 112: the test that guards the local-authority block
IsLocalAuthority(fqdn) == IsRootDomain(fqdn)

\* local authority that leaves the response code alone
LocalAuthorityKeepsRcode(st, fqdn) ==
    IF IsLocalAuthority(fqdn)
    THEN [res |-> [st.res EXCEPT !.aa = 1,
                                 !.ns = Append(@, Rec(fqdn, NS, << <<"localhost">> >>, -1)),
                                 !.ar = Append(@, Rec(fqdn, A, << <<"127.0.0.1">> >>, -1))],
          n |-> IF st.n = 0 THEN 1 ELSE st.n, exc |-> FALSE]
    ELSE st

\* query_cache, lines 112-119: local authority
LocalAuthority(st, fqdn) ==
    IF IsLocalAuthority(fqdn)
    THEN LET r1 == IF st.n = 0 THEN [st.res EXCEPT !.r = 3] ELSE st.res
             n1 == IF st.n = 0 THEN 1 ELSE st.n
         IN [res |-> [r1 EXCEPT !.aa = 1,
                                !.ns = Append(@, Rec(fqdn, NS, << <<"localhost">> >>, -1)),
                                !.ar = Append(@, Rec(fqdn, A, << <<"127.0.0.1">> >>, -1))],
             n |-> n1, exc |-> FALSE]
    ELSE st

\* query_cache, lines 97-121, when no CNAME is cached at fqdn
CacheDirect(c, res, fqdn, qtype) ==
    LET st == DirectLoop(CacheQuery(c, fqdn, qtype), res, 0, fqdn, qtype)
    IN IF st.exc THEN st ELSE LocalAuthority(st, fqdn)

\* ------------------------------------------------------ name-server lookup
RECURSIVE DataOf(_)
DataOf(recs) == IF recs = <<>> THEN <<>> ELSE <<Head(recs).data[1]>> \o DataOf(Tail(recs))

\* get_nameservers, lines 127-135: the IPs of the NS records of one zone
RECURSIVE NsIps(_, _)
NsIps(c, recs) ==
    IF recs = <<>> THEN <<>>
    ELSE LET host == Head(recs).data[1] IN
         (IF ip_type(host) = 0
          THEN DataOf(CacheQuerySet(c, host, A_TYPES))
          ELSE <<host>>) \o NsIps(c, Tail(recs))

\* a discovery that goes on to the shorter names after a name gave an IP
RECURSIVE get_nameservers_all_depths(_, _)
get_nameservers_all_depths(c, fqdn) ==
    IF fqdn = <<>> THEN <<>>
    ELSE NsIps(c, CacheQuery(c, Tail(fqdn), NS)) \o get_nameservers_all_depths(c, Tail(fqdn))

\* get_nameservers, lines 123-135: strip one label, look the rest up, stop at
\* the first depth that yields an IP
RECURSIVE get_nameservers(_, _)
get_nameservers(c, fqdn) ==
    IF fqdn = <<>> THEN <<>>
    ELSE LET rest == Tail(fqdn)
             ips == NsIps(c, CacheQuery(c, rest, NS))
         IN IF ips # <<>> THEN ips ELSE get_nameservers(c, rest)

\* -------------------------------------------------------- remote resolver
\* str.lower() of a label
lowerLabel(l) == IF l = "W" THEN "w" ELSE IF l = "EX" THEN "ex" ELSE l
lower(name) == [i \in 1..Len(name) |-> lowerLabel(name[i])]

\* a cache filter that looks at the ttl only
CacheableAnyType(r) == r.ttl > 0

\* query_remote, line 174: what is inserted into the cache
Cacheable(r) == r.ttl > 0 /\ r.qtype \notin {SOA, MX}

\* query_remote, lines 173-175
RECURSIVE CacheInsert(_, _)
CacheInsert(c, recs) ==
    IF recs = <<>> THEN c
    ELSE CacheInsert(IF Cacheable(Head(recs)) THEN add_host(c, Head(recs)) ELSE c,
                     Tail(recs))

\* a reply check that accepts every id
IdNotChecked(data, qid) == TRUE

\* query_remote, line 162: the reply carries the request's id
IdMatches(data, qid) == data.id = qid

\* query_remote, lines 176-182: [an, cname, n] after the answer records
RECURSIVE AnLoop(_, _, _, _, _, _)
AnLoop(recs, an, cname, n, qname, qtype) ==
    IF recs = <<>> THEN [an |-> an, cname |-> cname, n |-> n]
    ELSE LET r == Head(recs) IN
         AnLoop(Tail(recs), Append(an, r),
                IF r.qtype = CNAME THEN Append(cname, r.data[1]) ELSE cname,
                IF lower(r.name) = lower(qname) /\ (qtype = CNAME \/ r.qtype # CNAME)
                THEN n + 1 ELSE n,
                qname, qtype)

\* query_remote, lines 183-186: n after the authority records
RECURSIVE NsCount(_, _)
NsCount(recs, qtype) ==
    IF recs = <<>> THEN 0
    ELSE (IF Head(recs).qtype = SOA \/ qtype = NS THEN 1 ELSE 0) + NsCount(Tail(recs), qtype)

\* a next hop that does not look at the additional section
GlueIgnored(cres) == <<>>

\* query_remote, line 188: the glue of a response
Glue(cres) == DataOf(SelectSeq(cres.ar, LAMBDA i : i.qtype \in A_TYPES))

\* query_remote, lines 200-202: the addresses of a nested answer
AddrsOf(ns) == DataOf(SelectSeq(ns.an, LAMBDA j : j.qtype \in A_TYPES))

\* query_remote, line 191: the host of an authority record
HostOf(i) == IF i.qtype = SOA THEN Head(i.data) ELSE i.data[1]

\* AsyncProxyResolver.proxies
proxies == << <<"114.114.114.114">>, <<"180.76.76.76">>, <<"223.5.5.5">>, <<"223.6.6.6">> >>

\* -------------------------------------------------------------- scenarios
\* The cache after construction, the keys the clients ask for, the class of
\* the resolver (AsyncResolver or AsyncProxyResolver) and the kind of replies
\* the upstream servers send. Seed records (root hints, hosts file) have
\* ttl -1.
RootHints == <<Rec(ROOT, NS, <<N_rs>>, -1), Rec(N_rs, A, <<IP1>>, -1),
               Rec(N_rs, AAAA, <<IP2>>, -1)>>

Scenarios == <<
    \* nothing known about w.ex: remote walk from the root hints
    [cache |-> RootHints, keys |-> {<<N_w, A>>}, proxy |-> FALSE, up |-> "any"],
    \* cached CNAME chain ending at an A record, and at an NS record
    [cache |-> <<Rec(N_w, CNAME, <<N_m>>, -1), Rec(N_m, A, <<IP3>>, -1),
                 Rec(N_m, NS, <<N_ns>>, -1)>>,
     keys |-> {<<N_w, A>>, <<N_w, NS>>}, proxy |-> FALSE, up |-> "any"],
    \* cached CNAME chain of two links, and a CNAME that leads back
    [cache |-> <<Rec(N_w, CNAME, <<N_m>>, -1), Rec(N_m, CNAME, <<N_ex>>, -1),
                 Rec(N_ex, A, <<IP3>>, -1), Rec(N_ns, CNAME, <<N_ns>>, -1)>>,
     keys |-> {<<N_w, A>>, <<N_ns, A>>}, proxy |-> FALSE, up |-> "any"],
    \* local zone: an unknown name, a name with an address, a name with a CNAME
    [cache |-> <<Rec(N_tlan, A, <<IP3>>, -1), Rec(<<"c", "lan">>, CNAME, <<N_tlan>>, -1)>>,
     keys |-> {<<N_lan, A>>, <<N_tlan, A>>, <<<<"c", "lan">>, A>>}, proxy |-> FALSE,
     up |-> "any"],
    \* the proxy variant (AsyncProxyResolver), nothing known about w.ex
    [cache |-> RootHints, keys |-> {<<N_w, A>>}, proxy |-> TRUE, up |-> "forwarded"],
    \* name servers known for the queried name itself and for its parent
    [cache |-> RootHints \o <<Rec(N_w, NS, <<IP3>>, -1), Rec(N_ex, NS, <<N_ns>>, -1),
                              Rec(N_ns, A, <<IP2>>, -1)>>,
     keys |-> {<<N_w, A>>, <<N_ns, A>>}, proxy |-> FALSE, up |-> "answers"]
>>

Ids == {1, 2}

\* The datagrams an upstream server may send back for the question (qn, qtype)
Body(r, an, ns, ar) == [r |-> r, an |-> an, ns |-> ns, ar |-> ar]
Bodies(qn) ==
    { Body(0, <<Rec(qn, A, <<IP3>>, 60)>>, <<>>, <<>>),
      Body(0, <<Rec(qn, MX, <<N_m>>, 60), Rec(qn, A, <<IP3>>, 0)>>, <<>>, <<>>),
      Body(0, <<>>, <<Rec(N_ex, NS, <<N_ns>>, 60)>>, <<>>),
      Body(0, <<>>, <<Rec(N_ex, NS, <<N_ns>>, 0)>>, <<Rec(N_ns, A, <<IP2>>, 60)>>),
      Body(3, <<>>, <<Rec(N_ex, SOA, <<N_ns, N_ex>>, 60)>>, <<>>) }
    \cup (IF qn = N_m THEN {} ELSE {Body(0, <<Rec(qn, CNAME, <<N_m>>, 60)>>, <<>>, <<>>)})

\* What a forwarder's upstream may send back: an answer, a name error with
\* empty sections, a CNAME with the authority and glue of the target's zone
ForwardedBodies(qn) ==
    { Body(0, <<Rec(qn, A, <<IP3>>, 60)>>, <<>>, <<>>),
      Body(3, <<>>, <<>>, <<>>) }
    \cup (IF qn = N_m THEN {}
         ELSE {Body(0, <<Rec(qn, CNAME, <<N_m>>, 60)>>, <<Rec(N_ex, NS, <<N_ns>>, 60)>>,
                    <<Rec(N_ns, A, <<IP2>>, 60)>>)})

\* What an upstream that knows the name may send back: its address, or its
\* CNAME with the authority of the target's zone and no glue
AnswerBodies(qn) ==
    { Body(0, <<Rec(qn, A, <<IP3>>, 60)>>, <<>>, <<>>) }
    \cup (IF qn = N_m THEN {}
         ELSE {Body(0, <<Rec(qn, CNAME, <<N_m>>, 60)>>, <<Rec(N_ex, NS, <<N_ns>>, 60)>>,
                    <<>>)})

NoData == [id |-> 0, body |-> Body(0, <<>>, <<>>, <<>>)]

\* ------------------------------------------------------------------ state
Clients == {"c1", "c2"}
Tasks == {"t1", "t2", "t3", "t4"}
TaskSeq == <<"t1", "t2", "t3", "t4">>

VARIABLES
    sc,       \* the scenario (fixed by Init)
    cache,    \* self.cache: the records, in insertion order
    futures,  \* self.futures: key -> future
    fstate,   \* the futures created so far: "pending", "cancelled" or "done"
    queue,    \* self.queue
    lock,     \* self.lock: its holder, or "free"
    client,   \* the callers of query() outside the resolver
    task,     \* the query_key tasks
    timers,   \* the pending 3-second timeouts of wait_for, oldest first
    sends,    \* UDP requests sent
    calls,    \* query() calls made by the clients
    leaked    \* UDP endpoints left open by an attempt that is over

vars == <<sc, cache, futures, fstate, queue, lock, client, task, timers, sends, calls, leaked>>

\* The datagrams that may reach the endpoint of a request for qn with id qid
Upstream(qn) ==
    IF Scenarios[sc].up = "forwarded" THEN ForwardedBodies(qn)
    ELSE IF Scenarios[sc].up = "answers" THEN AnswerBodies(qn)
    ELSE Bodies(qn)
Datagrams(qn, qid) ==
    {[id |-> qid, body |-> b] : b \in Upstream(qn)}
    \cup {[id |-> i, body |-> Body(0, <<Rec(qn, A, <<IP1>>, 60)>>, <<>>, <<>>)] : i \in Ids \ {qid}}

NoKey == <<ROOT, 0>>
NoOut == [kind |-> "-", msg |-> DNSMessage]
OutMsg(m) == [kind |-> "msg", msg |-> m]
OutNone == [kind |-> "none", msg |-> DNSMessage]
OutErr == [kind |-> "error", msg |-> DNSMessage]

IdleClient == [st |-> "idle", key |-> NoKey, fid |-> 0, out |-> NoOut]

FreeTask ==
    [pc |-> "free", key |-> NoKey, fid |-> 0, res |-> DNSMessage,
     cn |-> <<>>, sub |-> NoKey, sfid |-> 0, got |-> NoOut,
     wl |-> <<>>, qn |-> ROOT, n |-> 0, nsip |-> <<>>, ip |-> ROOT, qid |-> 0,
     ep |-> FALSE, data |-> NoData, hosts |-> <<>>, cres_r |-> 0, its |-> 0, tried |-> 0]

Init ==
    /\ sc \in 1..Len(Scenarios)
    /\ cache = Scenarios[sc].cache
    /\ futures = [k \in {} |-> 0]
    /\ fstate = <<>>
    /\ queue = <<>>
    /\ lock = "free"
    /\ client = [c \in Clients |-> IdleClient]
    /\ task = [t \in Tasks |-> FreeTask]
    /\ timers = <<>>
    /\ sends = 0
    /\ calls = 0
    /\ leaked = 0

\* ------------------------------------------------------------ single flight
\* a lookup that finds no future, whatever the map holds
FutureNeverFound(fs, key) == TRUE

\* query_future, line 76: no future is pending for the key
NeedsFuture(fs, key) == key \notin DOMAIN fs

\* a lookup that puts the key on the queue whether or not a future is pending
QueryFutureAlwaysQueues(key) ==
    IF key \notin DOMAIN futures
    THEN [futures |-> (key :> (Len(fstate) + 1)) @@ futures,
          fstate |-> Append(fstate, "pending"),
          queue |-> Append(queue, key),
          fid |-> Len(fstate) + 1]
    ELSE [futures |-> futures, fstate |-> fstate, queue |-> Append(queue, key),
          fid |-> futures[key]]

\* query_future, lines 75-78, under the lock: [futures, fstate, queue, fid]
QueryFuture(key) ==
    IF NeedsFuture(futures, key)
    THEN [futures |-> (key :> (Len(fstate) + 1)) @@ futures,
          fstate |-> Append(fstate, "pending"),
          queue |-> Append(queue, key),
          fid |-> Len(fstate) + 1]
    ELSE [futures |-> futures, fstate |-> fstate, queue |-> queue, fid |-> futures[key]]

\* a block that is left with the lock still held
NeverReleased(holder) == holder

\* `with (yield from self.lock)`, lines 74 and 224: the lock on leaving the block
Release(holder) == "free"

\* the callers suspended in wait_for on future f
WClients(f) == {c \in Clients : client[c].st = "wait" /\ client[c].fid = f}
WTasks(f) == {t \in Tasks : task[t].pc \in {"c_wait", "n_wait"} /\ task[t].sfid = f}

GotPc(pc) == IF pc \in {"c_wait", "c_qf"} THEN "c_got" ELSE "n_got"

\* every caller suspended on f wakes up with `out`
WakeClients(cl, f, out) ==
    [c \in Clients |-> IF c \in WClients(f) THEN [cl[c] EXCEPT !.st = "ret", !.out = out]
                       ELSE cl[c]]
WakeTasks(tk, f, out) ==
    [t \in Tasks |-> IF t \in WTasks(f)
                     THEN [tk[t] EXCEPT !.pc = GotPc(task[t].pc), !.got = out]
                     ELSE tk[t]]
DropTimers(tm, f) ==
    SelectSeq(tm, LAMBDA w : w \notin WClients(f) /\ w \notin WTasks(f))

\* wait_for(future, 3.0) on timeout: the awaited future is cancelled
\* (fut.cancel()) before TimeoutError is raised
CancelOnTimeout(fs, f) == [fs EXCEPT ![f] = "cancelled"]

\* The event loop has nothing ready to run: time passes only then
Blocked(pc) == pc \in {"free", "dead", "c_wait", "n_wait", "r_read"}
FreeSlots == {i \in 1..Len(TaskSeq) : task[TaskSeq[i]].pc = "free"}
Idle ==
    /\ queue = <<>> \/ FreeSlots = {}
    /\ \A t \in Tasks : Blocked(task[t].pc)

\* ----------------------------------------------------------------- clients
\* query(), lines 209-211: query_future under the lock, then
\* wait_for(future, 3.0); a future that is already cancelled raises
\* CancelledError out of query()
ClientCall(c) ==
    /\ client[c].st \in {"idle", "ret"}
    /\ calls < MaxCalls
    /\ c = "c2" => client["c1"].st # "idle"
    /\ lock = "free"
    /\ \E key \in Scenarios[sc].keys :
          LET q == QueryFuture(key) IN
          /\ futures' = q.futures
          /\ fstate' = q.fstate
          /\ queue' = q.queue
          /\ IF q.fstate[q.fid] = "cancelled"
             THEN /\ client' = [client EXCEPT ![c] = [st |-> "ret", key |-> key,
                                                      fid |-> q.fid, out |-> OutErr]]
                  /\ timers' = timers
             ELSE /\ client' = [client EXCEPT ![c] = [st |-> "wait", key |-> key,
                                                      fid |-> q.fid, out |-> NoOut]]
                  /\ timers' = Append(timers, c)
    /\ lock' = Release(c)
    /\ calls' = calls + 1
    /\ UNCHANGED <<sc, cache, task, sends, leaked>>

\* query(), lines 211-213: the 3-second deadline of a client
ClientTimeout(c) ==
    /\ client[c].st = "wait"
    /\ timers # <<>> /\ Head(timers) = c
    /\ Idle
    /\ LET f == client[c].fid IN
       /\ fstate' = CancelOnTimeout(fstate, f)
       /\ client' = [WakeClients(client, f, OutErr) EXCEPT ![c].st = "ret", ![c].out = OutNone]
       /\ task' = WakeTasks(task, f, OutErr)
       /\ timers' = DropTimers(timers, f)
    /\ UNCHANGED <<sc, cache, futures, queue, lock, sends, calls, leaked>>

\* ------------------------------------------------------------------- tasks
\* a task that ended by raising: nothing after the raise runs
Dead(tr) == [FreeTask EXCEPT !.pc = "dead", !.key = tr.key, !.fid = tr.fid]

\* a dispatcher that leaves the response code as the resolvers set it
FinishKeepsRcode(tr, ret) ==
    [FreeTask EXCEPT !.pc = "fin", !.key = tr.key, !.fid = tr.fid, !.res = tr.res]

\* query_key, lines 222-223: ret is known, the entry is to be removed
Finish(tr, ret) ==
    [FreeTask EXCEPT !.pc = "fin", !.key = tr.key, !.fid = tr.fid,
                     !.res = IF ret THEN tr.res ELSE [tr.res EXCEPT !.r = 2]]

\* query_remote, line 205
RemoteReturn(tr) == Finish(tr, tr.n > 0)

\* a candidate loop that tries the failed candidate again
NextCandRetries(tr) ==
    IF tr.nsip = <<>> THEN RemoteReturn(tr)
    ELSE [tr EXCEPT !.pc = "r_connect", !.tried = @ + 1, !.data = NoData]

\* query_remote, lines 152-153 and 170-171: the next candidate of the for loop
NextCand(tr) ==
    IF tr.nsip = <<>> THEN RemoteReturn(tr)
    ELSE [tr EXCEPT !.pc = "r_connect", !.ip = Head(tr.nsip), !.nsip = Tail(tr.nsip),
                    !.tried = @ + 1, !.data = NoData]

\* query_remote, lines 144-151: the head of the while loop
IterHead(tr) ==
    IF tr.n # 0 \/ tr.wl = <<>> THEN RemoteReturn(tr)
    ELSE NextCand([tr EXCEPT !.qn = Head(tr.wl), !.wl = <<>>, !.qid = 0,
                             !.its = 0, !.tried = 0])

\* an end of iteration that does not look at the upstream's response code
IterEndDropsRcode(tr) ==
    IterHead([tr EXCEPT !.cres_r = 0, !.hosts = <<>>, !.sub = NoKey, !.sfid = 0,
                        !.got = NoOut])

\* query_remote, lines 203-204, then the loop test
IterEnd(tr) ==
    IterHead([tr EXCEPT !.res.r = IF tr.cres_r > 0 THEN tr.cres_r ELSE @,
                        !.cres_r = 0, !.hosts = <<>>, !.sub = NoKey, !.sfid = 0,
                        !.got = NoOut])

\* self.get_nameservers(fqdn), line 140: the method of the resolver's class
Nameservers(c, fqdn) ==
    IF Scenarios[sc].proxy THEN proxies ELSE get_nameservers(c, fqdn)

\* query_remote, lines 140-143
RemoteStart(tr) ==
    IterHead([tr EXCEPT !.nsip = Nameservers(cache, tr.key[1]),
                        !.wl = <<tr.key[1]>>, !.n = 0])

\* query_cache, line 90: the nested query for the next cached CNAME
ChaseNext(tr) ==
    [tr EXCEPT !.pc = "c_qf", !.sub = <<Head(tr.cn).data[1], tr.key[2]>>,
               !.sfid = 0, !.got = NoOut]

\* a cache resolver whose result the dispatcher does not wait for
query_cache_then_remote(tr) ==
    LET st == CacheDirect(cache, tr.res, tr.key[1], tr.key[2]) IN
    IF st.exc THEN Dead(tr) ELSE RemoteStart([tr EXCEPT !.res = st.res])

\* query_cache, lines 84-95 up to the first nested query, or lines 97-121
\* followed by query_remote up to its first suspension
query_cache(tr) ==
    LET fqdn == tr.key[1]
        qtype == tr.key[2]
        cname == CacheQuery(cache, fqdn, CNAME)
    IN IF cname # <<>>
       THEN LET tr2 == [tr EXCEPT !.res.an = @ \o cname] IN
            IF recursion_available = 0 \/ qtype = CNAME
            THEN Finish(tr2, TRUE)
            ELSE ChaseNext([tr2 EXCEPT !.cn = cname])
       ELSE LET st == CacheDirect(cache, tr.res, fqdn, qtype) IN
            IF st.exc THEN Dead(tr)
            ELSE IF st.n > 0 THEN Finish([tr EXCEPT !.res = st.res], TRUE)
            ELSE RemoteStart([tr EXCEPT !.res = st.res])

\* query_key, line 226: the future is fulfilled unless it is cancelled
Deliverable(fs, f) == fs[f] = "pending"

\* What a task does before it next suspends, once its own code has brought
\* it to tr: the nested query() up to wait_for (lines 209-211, 74-79), or
\* the end of query_key (lines 224-227). tm is the timer list so far.
Settle(t, tr, tm) ==
    IF tr.pc = "fin"
    THEN /\ lock = "free"
         /\ lock' = Release(t)
         /\ queue' = queue
         /\ IF tr.key \notin DOMAIN futures
            THEN /\ task' = [task EXCEPT ![t] = Dead(tr)]
                 /\ timers' = tm
                 /\ UNCHANGED <<futures, fstate, client>>
            ELSE /\ futures' = [k \in DOMAIN futures \ {tr.key} |-> futures[k]]
                 /\ IF Deliverable(fstate, tr.fid)
                    THEN /\ fstate' = [fstate EXCEPT ![tr.fid] = "done"]
                         /\ client' = WakeClients(client, tr.fid, OutMsg(tr.res))
                         /\ task' = [WakeTasks(task, tr.fid, OutMsg(tr.res))
                                        EXCEPT ![t] = FreeTask]
                         /\ timers' = DropTimers(tm, tr.fid)
                    ELSE /\ task' = [task EXCEPT ![t] = FreeTask]
                         /\ timers' = tm
                         /\ UNCHANGED <<fstate, client>>
    ELSE IF tr.pc \in {"c_qf", "n_qf"}
    THEN LET q == QueryFuture(tr.sub)
             w == IF tr.pc = "c_qf" THEN "c_wait" ELSE "n_wait" IN
         /\ lock = "free"
         /\ lock' = Release(t)
         /\ futures' = q.futures
         /\ fstate' = q.fstate
         /\ queue' = q.queue
         /\ client' = client
         /\ IF q.fstate[q.fid] = "cancelled"
            THEN /\ task' = [task EXCEPT ![t] = [tr EXCEPT !.pc = GotPc(w),
                                                           !.sfid = q.fid, !.got = OutErr]]
                 /\ timers' = tm
            ELSE /\ task' = [task EXCEPT ![t] = [tr EXCEPT !.pc = w, !.sfid = q.fid]]
                 /\ timers' = Append(tm, t)
    ELSE /\ task' = [task EXCEPT ![t] = tr]
         /\ timers' = tm
         /\ UNCHANGED <<futures, fstate, queue, client, lock>>

\* loop, lines 231-233: a key is taken off the queue and its task created
Spawn ==
    /\ queue # <<>>
    /\ FreeSlots # {}
    /\ LET t == TaskSeq[CHOOSE i \in FreeSlots : \A j \in FreeSlots : i <= j] IN
       task' = [task EXCEPT ![t] = [FreeTask EXCEPT !.pc = "start", !.key = Head(queue)]]
    /\ queue' = Tail(queue)
    /\ UNCHANGED <<sc, cache, futures, fstate, lock, client, timers, sends, calls, leaked>>

\* query_key, lines 218-222, to the first suspension of the task
TaskStart(t) ==
    /\ task[t].pc = "start"
    /\ Settle(t, IF task[t].key \notin DOMAIN futures THEN Dead(task[t])
                 ELSE query_cache([task[t] EXCEPT !.fid = futures[task[t].key]]),
              timers)
    /\ UNCHANGED <<sc, cache, sends, calls, leaked>>

\* the 3-second deadline of a nested query()
TaskWaitTimeout(t) ==
    /\ task[t].pc \in {"c_wait", "n_wait"}
    /\ timers # <<>> /\ Head(timers) = t
    /\ Idle
    /\ LET f == task[t].sfid IN
       /\ fstate' = CancelOnTimeout(fstate, f)
       /\ client' = WakeClients(client, f, OutErr)
       /\ task' = [WakeTasks(task, f, OutErr) EXCEPT ![t].got = OutNone]
       /\ timers' = DropTimers(timers, f)
    /\ UNCHANGED <<sc, cache, futures, queue, lock, sends, calls, leaked>>

\* query_cache, lines 90-95: the nested query has returned
TaskCGot(t) ==
    /\ task[t].pc = "c_got"
    /\ LET tr == task[t]
           cres == tr.got.msg
           tr2 == IF tr.got.kind = "msg" /\ cres.r <= 0
                  THEN [tr EXCEPT !.res.an = @ \o cres.an, !.res.ns = cres.ns,
                                  !.res.ar = cres.ar, !.cn = Tail(@)]
                  ELSE [tr EXCEPT !.cn = Tail(@)]
       IN Settle(t, IF tr.got.kind = "error" THEN Dead(tr)
                    ELSE IF tr2.cn = <<>> THEN Finish(tr2, TRUE)
                    ELSE ChaseNext(tr2),
                 timers)
    /\ UNCHANGED <<sc, cache, sends, calls, leaked>>

\* query_remote, line 150: the id of the packed request. Ids are only ever
\* compared, so one value stands for all.
qid_of(qdata) == 1

\* query_remote, lines 153-160: the endpoint is created within a second and
\* the request sent, or wait_for(..., 1.0) times out and the next candidate
\* is tried
TaskConnect(t) ==
    /\ task[t].pc = "r_connect"
    /\ \/ /\ sends < MaxSends
          /\ task' = [task EXCEPT ![t].pc = "r_read", ![t].qid = qid_of(task[t].qn),
                                  ![t].ep = TRUE, ![t].its = @ + 1]
          /\ sends' = sends + 1
          /\ timers' = Append(timers, t)
          /\ UNCHANGED <<futures, fstate, queue, client, lock>>
       \/ /\ Settle(t, NextCand(task[t]), timers)
          /\ sends' = sends
    /\ UNCHANGED <<sc, cache, calls, leaked>>

\* CallbackProtocol.datagram_received, lines 45-48
TaskReply(t) ==
    /\ task[t].pc = "r_read"
    /\ \E d \in Datagrams(task[t].qn, task[t].qid) :
          task' = [task EXCEPT ![t].pc = "r_recv", ![t].data = d, ![t].ep = FALSE]
    /\ timers' = SelectSeq(timers, LAMBDA w : w # t)
    /\ UNCHANGED <<sc, cache, futures, fstate, queue, lock, client, sends, calls, leaked>>

\* query_remote, line 164: what the attempt does with its endpoint when
\* wait_for(future, 3.0) times out: nothing, the transport stays open
CloseOnTimeout(n) == n + 1

\* query_remote, lines 160 and 164-165: the read times out
TaskReadTimeout(t) ==
    /\ task[t].pc = "r_read"
    /\ timers # <<>> /\ Head(timers) = t
    /\ Idle
    /\ Settle(t, NextCand([task[t] EXCEPT !.ep = FALSE]), Tail(timers))
    /\ leaked' = CloseOnTimeout(leaked)
    /\ UNCHANGED <<sc, cache, sends, calls>>

\* a datagram reaches an endpoint whose attempt timed out: datagram_received
\* closes the transport (line 46), the future is cancelled (line 47)
LateDatagram ==
    /\ leaked > 0
    /\ leaked' = leaked - 1
    /\ UNCHANGED <<sc, cache, futures, fstate, queue, lock, client, task, timers, sends, calls>>

\* query_remote, lines 172-189, for a reply whose id matches
Parse(tr, c) ==
    LET cres == tr.data.body
        qtype == tr.key[2]
        al == AnLoop(cres.an, tr.res.an, tr.wl, tr.n, tr.qn, qtype)
        tr2 == [tr EXCEPT !.res.an = al.an, !.res.ns = @ \o cres.ns,
                          !.res.ar = @ \o cres.ar, !.wl = al.cname,
                          !.n = al.n + NsCount(cres.ns, qtype),
                          !.nsip = Glue(cres), !.cres_r = cres.r, !.data = NoData,
                          !.ip = ROOT]
    IN [cache |-> CacheInsert(c, cres.an \o cres.ns \o cres.ar),
        task |-> IF tr2.nsip = <<>> /\ cres.ns # <<>>
                 THEN [tr2 EXCEPT !.pc = "n_qf", !.hosts = cres.ns,
                                  !.sub = <<HostOf(Head(cres.ns)), ANY>>]
                 ELSE IterEnd(tr2)]

\* query_remote, lines 161-172: the task resumes with the datagram
TaskRecv(t) ==
    /\ task[t].pc = "r_recv"
    /\ IF IdMatches(task[t].data, task[t].qid)
       THEN LET p == Parse(task[t], cache) IN
            /\ cache' = p.cache
            /\ Settle(t, p.task, timers)
       ELSE /\ cache' = cache
            /\ Settle(t, NextCand(task[t]), timers)
    /\ UNCHANGED <<sc, sends, calls, leaked>>

\* query_remote, lines 194-202: the nested query for a name-server host has
\* returned (an exception is logged and the loop goes on)
TaskNGot(t) ==
    /\ task[t].pc = "n_got"
    /\ LET tr == task[t]
           tr2 == [tr EXCEPT !.nsip = IF tr.got.kind = "msg"
                                      THEN @ \o AddrsOf(tr.got.msg) ELSE @,
                             !.hosts = Tail(@), !.got = NoOut, !.sfid = 0]
       IN Settle(t, IF tr2.hosts = <<>> THEN IterEnd(tr2)
                    ELSE [tr2 EXCEPT !.pc = "n_qf",
                                     !.sub = <<HostOf(Head(tr2.hosts)), ANY>>],
                 timers)
    /\ UNCHANGED <<sc, cache, sends, calls, leaked>>

Next ==
    \/ \E c \in Clients : ClientCall(c)
    \/ \E c \in Clients : ClientTimeout(c)
    \/ Spawn
    \/ \E t \in Tasks : TaskStart(t)
    \/ \E t \in Tasks : TaskWaitTimeout(t)
    \/ \E t \in Tasks : TaskCGot(t)
    \/ \E t \in Tasks : TaskConnect(t)
    \/ \E t \in Tasks : TaskReply(t)
    \/ \E t \in Tasks : TaskReadTimeout(t)
    \/ \E t \in Tasks : TaskRecv(t)
    \/ \E t \in Tasks : TaskNGot(t)
    \/ LateDatagram

Spec == Init /\ [][Next]_vars

\* =================================================================== claims
Occ(q, k) == Cardinality({i \in 1..Len(q) : q[i] = k})
TasksOf(k) == {t \in Tasks : task[t].pc # "free" /\ task[t].key = k}
KeysInPlay == DOMAIN futures \cup Range(queue)
              \cup {task[t].key : t \in {u \in Tasks : task[u].pc # "free"}}

\* Every key with a pending entry is on the work queue or has a resolution
\* task, one in all, a key without an entry has neither, and every caller
\* suspended on a key waits on the future of the key's entry.
SingleFlight ==
    /\ \A k \in KeysInPlay :
          Occ(queue, k) + Cardinality(TasksOf(k)) = IF k \in DOMAIN futures THEN 1 ELSE 0
    /\ \A c \in Clients : client[c].st = "wait" =>
          client[c].key \in DOMAIN futures /\ futures[client[c].key] = client[c].fid

C2_SameOutcome ==
    \A c \in Clients, d \in Clients :
        (client[c].st = "ret" /\ client[d].st = "ret" /\ client[c].fid = client[d].fid)
        => client[c].out = client[d].out

\* C3: a waiter's deadline leaves the shared future to its peers: no caller
\* that joined the future of a caller that timed out ends with an error
\* instead of the resolution's message.
C3_TimeoutSparesPeers ==
    \A c \in Clients, d \in Clients :
        (client[d].st = "ret" /\ client[d].out.kind = "none"
         /\ client[c].st = "ret" /\ client[c].fid = client[d].fid)
        => client[c].out.kind # "error"

\* C4: a key in the pending map is still queued or has a resolution task
\* that has not ended, so that the task can remove it.
C4_EntryHasLiveTask ==
    \A k \in DOMAIN futures :
        \/ Occ(queue, k) > 0
        \/ \E t \in Tasks : task[t].key = k /\ task[t].pc \notin {"free", "dead"}

InLocalZone(name) == Len(name) >= 2 /\ name[Len(name)] = "lan"
SynNS(name) == Rec(name, NS, << <<"localhost">> >>, -1)
SynA(name) == Rec(name, A, << <<"127.0.0.1">> >>, -1)
LocalAnswer(m, name) ==
    /\ m.aa = 1
    /\ SynNS(name) \in Range(m.ns)
    /\ SynA(name) \in Range(m.ar)
    /\ m.r = 3 <=> m.an = <<>>

\* C5 as stated: every message delivered for a name of a local zone is a
\* local answer (aa = 1, the synthetic NS and A records, r = 3 iff there is
\* no answer record), whatever the cache holds at the name.
C5_LocalAuthorityAnyCache ==
    \A c \in Clients :
        (client[c].st = "ret" /\ client[c].out.kind = "msg" /\ InLocalZone(client[c].key[1]))
        => LocalAnswer(client[c].out.msg, client[c].key[1])

\* C5, amended: every message delivered for a name of a local zone at which
\* no CNAME is cached is a local answer.
C5_LocalAuthority ==
    \A c \in Clients :
        (/\ client[c].st = "ret" /\ client[c].out.kind = "msg"
         /\ InLocalZone(client[c].key[1])
         /\ \A i \in 1..Len(cache) :
               ~(cache[i].name = client[c].key[1] /\ cache[i].qtype = CNAME))
        => LocalAnswer(client[c].out.msg, client[c].key[1])

\* C5 witness: an unknown local name was answered with a name error and a
\* known one with its address.
C5_Witness ==
    /\ client["c1"].st = "ret" /\ client["c1"].key = <<N_lan, A>>
    /\ client["c1"].out.kind = "msg" /\ client["c1"].out.msg.r = 3
    /\ client["c2"].st = "ret" /\ client["c2"].key = <<N_tlan, A>>
    /\ client["c2"].out.kind = "msg" /\ client["c2"].out.msg.r = 0
    /\ client["c2"].out.msg.an # <<>>

\* the tasks that can complete the future of key k
Resolvers(k) == {t \in Tasks : task[t].key = k /\ task[t].pc \notin {"free", "dead"}}
WaitsOn(t) == IF task[t].pc \in {"c_wait", "n_wait"} THEN Resolvers(task[t].sub) ELSE {}
RECURSIVE ReachFrom(_, _)
ReachFrom(S, n) ==
    IF n = 0 THEN S ELSE ReachFrom(S \cup UNION {WaitsOn(u) : u \in S}, n - 1)

\* C6: no resolution task that chases a cached CNAME awaits a waiter whose
\* completion depends on the task itself.
C6_NoSelfWait ==
    \A t \in Tasks :
        task[t].pc = "c_wait" => t \notin ReachFrom(WaitsOn(t), Cardinality(Tasks))

\* the records a cached CNAME chain from fqdn leads to: the CNAMEs and the
\* records of the requested type at its end
RECURSIVE ChainAn(_, _, _, _)
ChainAn(c, fqdn, qtype, fuel) ==
    LET cn == SelectSeq(c, LAMBDA r : r.name = fqdn /\ r.qtype = CNAME) IN
    IF cn = <<>> \/ fuel = 0
    THEN SelectSeq(c, LAMBDA r : r.name = fqdn /\ r.qtype = qtype)
    ELSE cn \o ChainAn(c, cn[1].data[1], qtype, fuel - 1)
RECURSIVE ChainEnds(_, _, _, _)
ChainEnds(c, fqdn, qtype, fuel) ==
    LET cn == SelectSeq(c, LAMBDA r : r.name = fqdn /\ r.qtype = CNAME) IN
    IF cn = <<>> THEN \E i \in 1..Len(c) : c[i].name = fqdn /\ c[i].qtype = qtype
    ELSE fuel > 0 /\ ChainEnds(c, cn[1].data[1], qtype, fuel - 1)
HasChain(c, key) ==
    /\ key[2] # CNAME
    /\ \E i \in 1..Len(c) : c[i].name = key[1] /\ c[i].qtype = CNAME
    /\ ChainEnds(c, key[1], key[2], Len(c))

\* C7: a query whose CNAME chain and final records are all cached returns a
\* message that holds every CNAME of the chain and the final records, and no
\* UDP request is sent.
C7_ChainFromCache ==
    \A c \in Clients :
        (client[c].st = "ret" /\ HasChain(Scenarios[sc].cache, client[c].key))
        => /\ client[c].out.kind = "msg"
           /\ Range(ChainAn(Scenarios[sc].cache, client[c].key[1], client[c].key[2],
                            Len(Scenarios[sc].cache))) \subseteq Range(client[c].out.msg.an)
           /\ sends = 0

\* C10: no endpoint is left open by an attempt that is over.
C10_EndpointsClosed ==
    /\ leaked = 0
    /\ \A t \in Tasks : task[t].ep => task[t].pc = "r_read"

\* the step is task t resuming with the datagram it received
Resumes(t) == task[t].pc = "r_recv" /\ task'[t] # task[t]
SectionsOf(b) == b.an \o b.ns \o b.ar
Carries(m, b) ==
    /\ Range(b.an) \subseteq Range(m.an)
    /\ Range(b.ns) \subseteq Range(m.ns)
    /\ Range(b.ar) \subseteq Range(m.ar)
\* the response task t was building is, after the step, still with the task
\* or in the hands of the callers that waited for it
ResponseCarries(t, b) ==
    /\ task'[t].pc \notin {"free", "dead"} => Carries(task'[t].res, b)
    /\ \A c \in Clients :
          (client[c].st = "wait" /\ client[c].fid = task[t].fid /\ client'[c].st = "ret")
          => client'[c].out.kind = "msg" /\ Carries(client'[c].out.msg, b)

\* C8: when a reply is parsed, the cache grows by exactly its records with
\* ttl > 0 and a type other than SOA and MX, in order; every record of the
\* reply, cached or not, is placed in the response; nothing else inserts
\* records learned from upstream.
C8_CachingPolicy ==
    [][/\ \A t \in Tasks :
             (Resumes(t) /\ task[t].data.id = task[t].qid)
             => /\ cache' = cache \o SelectSeq(SectionsOf(task[t].data.body),
                                 LAMBDA r : r.ttl > 0 /\ r.qtype # SOA /\ r.qtype # MX)
                /\ ResponseCarries(t, task[t].data.body)
       /\ cache' # cache => \E t \in Tasks : Resumes(t)
      ]_vars

\* C8 witness: a referral was delivered whose glue is cached and whose NS
\* record with ttl 0 is not, and an answer was delivered whose MX record and
\* ttl-0 address are not cached.
C8_Witness ==
    /\ client["c1"].st = "ret" /\ client["c1"].out.kind = "msg"
    /\ Rec(N_ns, A, <<IP2>>, 60) \in Range(client["c1"].out.msg.ar) \cap Range(cache)
    /\ Rec(N_ex, NS, <<N_ns>>, 0) \in Range(client["c1"].out.msg.ns) \ Range(cache)
    /\ client["c2"].st = "ret" /\ client["c2"].out.kind = "msg"
    /\ {Rec(N_w, MX, <<N_m>>, 60), Rec(N_w, A, <<IP3>>, 0)}
           \subseteq Range(client["c2"].out.msg.an) \ Range(cache)

\* C9: a reply whose id differs from the request's is discarded: the cache
\* and the response are left as they were and the next candidate is tried,
\* or, after the last candidate, the walk ends with nothing parsed; so a step
\* that changes the cache has read a reply with the request's id.
C9_IdMatch ==
    [][/\ \A t \in Tasks :
             (Resumes(t) /\ task[t].data.id # task[t].qid)
             => /\ cache' = cache
                /\ IF task[t].nsip # <<>>
                   THEN /\ task'[t].pc = "r_connect"
                        /\ task'[t].ip = Head(task[t].nsip)
                        /\ task'[t].res = task[t].res
                        /\ task'[t].n = task[t].n
                   ELSE /\ task'[t].pc = "free"
                        /\ \A c \in Clients :
                              (client[c].st = "wait" /\ client[c].fid = task[t].fid)
                              => client'[c].out = OutMsg([task[t].res EXCEPT !.r = 2])
       /\ cache' # cache
          => \E t \in Tasks : Resumes(t) /\ task[t].data.id = task[t].qid
      ]_vars

\* C9 witness: the only caller got the empty server-failure response before
\* any deadline, after a request to each of the two candidates: both replies
\* had another id and were discarded, the second after the last candidate.
C9_Witness ==
    /\ calls = 1 /\ sends = 2 /\ cache = Scenarios[sc].cache
    /\ client["c1"].st = "ret"
    /\ client["c1"].out = OutMsg([DNSMessage EXCEPT !.r = 2])

\* C11: in the proxy variant every UDP request goes to an address of the
\* static proxies list.
C11_ProxyOnly ==
    Scenarios[sc].proxy =>
        \A t \in Tasks : task[t].pc = "r_read" => task[t].ip \in Range(proxies)

\* C12: a task in the remote resolver never awaits, in a nested query() for
\* a name-server host, the waiter of the key it is resolving.
C12_RemoteNeverAwaitsOwnKey ==
    \A t \in Tasks : task[t].pc = "n_wait" => task[t].sub # task[t].key

\* the step is the last of task t's remote resolver and of the task
EndsRemote(t) ==
    /\ task[t].pc \in {"r_connect", "r_read", "r_recv", "n_got"}
    /\ task'[t].pc = "free"
\* the callers that the step of task t wakes up
Woken(t) ==
    {c \in Clients : client[c].st = "wait" /\ client[c].fid = task[t].fid
                     /\ client'[c].st = "ret"}
\* the records of a response that count as answers to (qn, qtype)
CountedAn(b, qn, qtype) ==
    Cardinality({i \in 1..Len(b.an) :
                    /\ lower(b.an[i].name) = lower(qn)
                    /\ (qtype = CNAME \/ b.an[i].qtype # CNAME)})
CountedNs(b, qtype) ==
    Cardinality({i \in 1..Len(b.ns) : b.ns[i].qtype = SOA \/ qtype = NS})
\* the reply task t resumes with is parsed by the step
Parses(t) == task[t].pc = "r_recv" /\ task[t].data.id = task[t].qid
\* the answers counted by the walk of task t once the step is done
NAfter(t) ==
    task[t].n + (IF Parses(t)
                 THEN CountedAn(task[t].data.body, task[t].qn, task[t].key[2])
                      + CountedNs(task[t].data.body, task[t].key[2])
                 ELSE 0)

\* C13: when the remote resolver of a key ends without a countable answer
\* (after the cache resolver failed), by exhaustion of the candidates or after
\* a reply with nothing countable, the message delivered for the key has r = 2.
C13_ServerFailure ==
    [][\A t \in Tasks :
          (EndsRemote(t) /\ NAfter(t) = 0)
          => \A c \in Woken(t) :
                client'[c].out.kind = "msg" /\ client'[c].out.msg.r = 2
      ]_vars

\* C13 witness: a referral with nothing countable ended the walk and the
\* caller got it as a server failure.
C13_Witness ==
    /\ calls = 1 /\ sends = 1
    /\ client["c1"].st = "ret" /\ client["c1"].out.kind = "msg"
    /\ client["c1"].out.msg.r = 2
    /\ client["c1"].out.msg.an = <<>> /\ client["c1"].out.msg.ar # <<>>

\* C14 as stated: whenever a parsed upstream response has r > 0, the message
\* delivered carries that code, whether or not the response had a countable
\* record.
C14_RcodeAlwaysDelivered ==
    [][\A t \in Tasks :
          (Parses(t) /\ task[t].data.body.r > 0)
          => \A c \in Woken(t) :
                /\ client'[c].out.kind = "msg"
                /\ client'[c].out.msg.r = task[t].data.body.r
      ]_vars

\* C14, amended: whenever a parsed upstream response has r > 0 the remote
\* resolver sets res.r to that code; the message delivered carries it when
\* the walk has counted an answer, and r = 2 when it has counted none. The
\* code is kept (cres.r) while the nested queries for the authority hosts run.
C14_RcodePropagation ==
    [][/\ \A t \in Tasks :
          (Parses(t) /\ task[t].data.body.r > 0)
          => /\ task'[t].pc = "r_connect" => task'[t].res.r = task[t].data.body.r
             /\ task'[t].pc \in {"n_wait", "n_got"} => task'[t].cres_r = task[t].data.body.r
             /\ \A c \in Woken(t) :
                   /\ client'[c].out.kind = "msg"
                   /\ client'[c].out.msg.r =
                         IF NAfter(t) > 0 THEN task[t].data.body.r ELSE 2
       /\ \A t \in Tasks :
          (task[t].pc = "n_got" /\ task[t].cres_r > 0)
          => /\ task'[t].pc \in {"n_wait", "n_got"} => task'[t].cres_r = task[t].cres_r
             /\ task'[t].pc = "r_connect" => task'[t].res.r = task[t].cres_r
             /\ \A c \in Woken(t) :
                   /\ client'[c].out.kind = "msg"
                   /\ client'[c].out.msg.r = IF task[t].n > 0 THEN task[t].cres_r ELSE 2
      ]_vars

\* C14 witness: an upstream name error with its SOA record reached the caller
\* as r = 3.
C14_Witness ==
    /\ client["c1"].st = "ret" /\ client["c1"].out.kind = "msg"
    /\ client["c1"].out.msg.r = 3 /\ client["c1"].out.msg.aa = 0
    /\ \E i \in 1..Len(client["c1"].out.msg.ns) : client["c1"].out.msg.ns[i].qtype = SOA

\* the cache resolver returns true for key on cache c: a CNAME is cached at
\* the name, or a record of the requested type is, or the name is local
CacheSucceeds(c, key) ==
    LET Direct == {i \in 1..Len(c) : c[i].name = key[1]
                                      /\ (key[2] = ANY \/ c[i].qtype = key[2])}
    IN \/ \E i \in 1..Len(c) : c[i].name = key[1] /\ c[i].qtype = CNAME
       \/ /\ \A i \in Direct : c[i].qtype # NS
          /\ Direct # {} \/ InLocalZone(key[1])
InRemote(pc) == pc \in {"r_connect", "r_read", "r_recv", "n_wait", "n_got"}
InCache(pc) == pc \in {"c_wait", "c_got"}

\* C15: a resolution task enters the remote resolver only from the cache
\* resolver's failure: a task whose cache resolver succeeds, at once or after
\* its CNAME chase, never is in the remote resolver and sends no UDP request.
C15_CacheBeforeRemote ==
    [][\A t \in Tasks :
          /\ (task[t].pc = "start" /\ task'[t] # task[t])
             => /\ CacheSucceeds(cache, task[t].key) => ~InRemote(task'[t].pc)
                /\ CacheSucceeds(cache, task[t].key) => sends' = sends
                /\ InRemote(task'[t].pc) => ~CacheSucceeds(cache, task[t].key)
          /\ InCache(task[t].pc) => ~InRemote(task'[t].pc) /\ task'[t].its = 0
          /\ (task[t].pc = "c_got" /\ task'[t] # task[t]) => sends' = sends
      ]_vars

\* C15 witness: with name servers at hand, a cached address was returned
\* without a request, and a name not in the cache was asked upstream.
C15_Witness ==
    /\ sc = 6 /\ sends = 1
    /\ client["c1"].st = "ret" /\ client["c1"].key = <<N_ns, A>>
    /\ client["c1"].out = OutMsg([DNSMessage EXCEPT !.an = <<Rec(N_ns, A, <<IP2>>, -1)>>])
    /\ client["c2"].st = "wait" /\ client["c2"].key = <<N_w, A>>
    /\ \E t \in Tasks : task[t].pc = "r_read" /\ task[t].key = <<N_w, A>>

\* the step is a failed attempt of task t: the endpoint was not created in
\* time, the read timed out, or the reply had another id
AttemptFails(t) ==
    \/ task[t].pc = "r_connect" /\ task'[t] # task[t] /\ sends' = sends
    \/ task[t].pc = "r_read" /\ task'[t] # task[t] /\ task'[t].pc # "r_recv"
    \/ task[t].pc = "r_recv" /\ task'[t] # task[t] /\ task[t].data.id # task[t].qid

\* C16: a failed attempt moves on to the next candidate of the list, in
\* order, within the same iteration, and after the last candidate the walk
\* ends with what has been accumulated; a reply with the request's id ends
\* the iteration's candidate loop; each candidate gets at most one request.
C16_CandidateFailover ==
    [][\A t \in Tasks :
          /\ AttemptFails(t)
             => IF task[t].nsip # <<>>
                THEN /\ task'[t].pc = "r_connect"
                     /\ task'[t].ip = Head(task[t].nsip)
                     /\ task'[t].nsip = Tail(task[t].nsip)
                     /\ task'[t].tried = task[t].tried + 1
                     /\ task'[t].qn = task[t].qn /\ task'[t].res = task[t].res
                     /\ task'[t].its = task[t].its
                ELSE /\ task'[t].pc = "free"
                     /\ \A c \in Woken(t) :
                           client'[c].out = OutMsg(IF task[t].n = 0
                                                   THEN [task[t].res EXCEPT !.r = 2]
                                                   ELSE task[t].res)
          /\ (Parses(t) /\ task'[t].pc = "r_connect")
             => task'[t].tried = 1 /\ task'[t].its = 0
          /\ task'[t].its <= task'[t].tried
      ]_vars

\* C16 witness: the third proxy is being asked after the first two attempts
\* failed.
C16_Witness ==
    \E t \in Tasks :
        /\ task[t].pc = "r_read" /\ task[t].tried = 3
        /\ task[t].ip = proxies[3] /\ task[t].nsip = <<proxies[4]>>

\* the data of the A and AAAA records of a section, in order
AddrData(recs) ==
    LET g == SelectSeq(recs, LAMBDA r : r.qtype = A \/ r.qtype = AAAA)
    IN [i \in 1..Len(g) |-> g[i].data[1]]
\* the candidates task t is left with by the step: the one it goes to next
\* and those after it
CandsAfter(t) ==
    IF task'[t].pc = "r_connect" THEN <<task'[t].ip>> \o task'[t].nsip ELSE task'[t].nsip
InNested(pc) == pc \in {"n_wait", "n_got"}

\* C17: after a parsed response the candidates of the next iteration are the
\* A/AAAA data of its additional section when there is any, and no nested
\* query is made then; with none, the host of each authority record is
\* resolved by a nested query(host, ANY), in order, and the A/AAAA data of
\* each answer is collected.
C17_NextHop ==
    [][\A t \in Tasks :
          /\ (Parses(t) /\ task'[t] # task[t])
             => LET b == task[t].data.body IN
                IF AddrData(b.ar) # <<>>
                THEN /\ ~InNested(task'[t].pc)
                     /\ queue' = queue /\ futures' \in {futures} \cup
                            {[k \in DOMAIN futures \ {task[t].key} |-> futures[k]]}
                     /\ task'[t].pc = "r_connect" => CandsAfter(t) = AddrData(b.ar)
                ELSE IF b.ns # <<>>
                THEN /\ InNested(task'[t].pc)
                     /\ task'[t].sub = <<b.ns[1].data[1], ANY>>
                     /\ task'[t].nsip = <<>>
                ELSE ~InNested(task'[t].pc) /\ task'[t].pc # "r_connect"
          /\ (task[t].pc = "n_got" /\ task'[t] # task[t])
             => LET got == IF task[t].got.kind = "msg"
                           THEN AddrData(task[t].got.msg.an) ELSE <<>>
                IN /\ task'[t].pc # "free" => CandsAfter(t) = task[t].nsip \o got
                   /\ IF Len(task[t].hosts) > 1
                      THEN /\ InNested(task'[t].pc)
                           /\ task'[t].sub = <<task[t].hosts[2].data[1], ANY>>
                      ELSE ~InNested(task'[t].pc)
      ]_vars

\* C17 witness: the request of the second iteration goes to the address that
\* the nested query for the authority host returned, no glue having come.
C17_Witness ==
    /\ sc = 6
    /\ \E t \in Tasks :
          /\ task[t].key = <<N_w, A>> /\ task[t].pc = "r_read"
          /\ task[t].qn = N_m /\ task[t].ip = IP2 /\ task[t].nsip = <<>>

RECURSIVE Concat(_)
Concat(ss) == IF ss = <<>> THEN <<>> ELSE Head(ss) \o Concat(Tail(ss))
\* fqdn with its first k labels stripped
Stripped(fqdn, k) == SubSeq(fqdn, k + 1, Len(fqdn))
\* the IPs the cache c gives for the name servers of zone: the data of an NS
\* record that is an IP, the cached A/AAAA data of its host otherwise
IpsAt(c, zone) ==
    LET ns == SelectSeq(c, LAMBDA r : r.name = zone /\ r.qtype = NS)
    IN Concat([i \in 1..Len(ns) |->
                  IF ns[i].data[1] \in IpAddrs THEN <<ns[i].data[1]>>
                  ELSE AddrData(SelectSeq(c, LAMBDA r : r.name = ns[i].data[1]))])
\* the IPs of the first depth, from `from` labels stripped on, that has any
FirstDepthIps(c, fqdn, from) ==
    LET ks == {k \in from..Len(fqdn) : IpsAt(c, Stripped(fqdn, k)) # <<>>}
    IN IF ks = {} THEN <<>>
       ELSE IpsAt(c, Stripped(fqdn, CHOOSE k \in ks : \A j \in ks : k <= j))
\* the step takes task t from the dispatcher to the first candidate of the
\* name-server discovery of AsyncResolver
Discovers(t) ==
    task[t].pc = "start" /\ task'[t].pc = "r_connect" /\ ~Scenarios[sc].proxy

\* C18 as stated: the candidates are the IPs of the first label depth that
\* yields one, looking from the full name on.
C18_DiscoveryFromFullName ==
    [][\A t \in Tasks :
          Discovers(t) => CandsAfter(t) = FirstDepthIps(cache, task[t].key[1], 0)
      ]_vars

\* C18, amended: the candidates are the IPs of the first label depth that
\* yields one, looking from the name with its first label stripped on, down
\* to the root name.
C18_Discovery ==
    [][\A t \in Tasks :
          Discovers(t) => CandsAfter(t) = FirstDepthIps(cache, task[t].key[1], 1)
      ]_vars

\* C18 witness: for w.ex, with name servers cached at w.ex, at ex and at the
\* root, the only candidate is the address of the name server of ex.
C18_Witness ==
    /\ sc = 6
    /\ \E t \in Tasks :
          /\ task[t].key = <<N_w, A>> /\ task[t].pc = "r_connect"
          /\ task[t].qn = N_w /\ task[t].tried = 1
          /\ task[t].ip = IP2 /\ task[t].nsip = <<>>

Suspended(pc) == pc \in {"c_wait", "n_wait", "r_read"}

C20_QueueConsistent ==
    /\ \A i \in 1..Len(queue) :
          /\ queue[i] \in DOMAIN futures
          /\ \A j \in 1..Len(queue) : queue[i] = queue[j] => i = j
    /\ \A t \in Tasks : task[t].pc = "start" => task[t].key \in DOMAIN futures

\* C20 witness: a task is about to read the entry of its key while another
\* key waits in the queue, after the deadline of a caller has passed.
C20_Witness ==
    /\ queue # <<>>
    /\ \E t \in Tasks : task[t].pc = "start" /\ task[t].key # queue[1]
    /\ \E c \in Clients : client[c].st = "ret" /\ client[c].out.kind = "none"

====
